---- MODULE Spec2Model ----
(***************************************************************************)
(* A model of ci1d/datasetdefs.py: the four dataset containers             *)
(* (UnivariateDataset0D, UnivariateDataset1D, BivariateDataset0D,          *)
(* BivariateDataset1D), their constructors, their read-only queries and    *)
(* the values those queries hand back to the caller.                       *)
(*                                                                         *)
(* Numbers.  Means, variances and covariances are exact rationals          *)
(* (numerator, denominator).  Square roots and the singular value          *)
(* decomposition are irrational, so they are computed in fixed point:      *)
(* a unit vector component u is stored as the integer nearest u * Scale.   *)
(* An n-d array is a record [shape, v]: its shape and its entries in       *)
(* row-major order (numpy's C order).                                      *)
(***************************************************************************)
EXTENDS Integers, Sequences, FiniteSets, TLC

VARIABLES pc, cls, inp, lapack, obj, raw, ret, err, repeated, writes

vars == <<pc, cls, inp, lapack, obj, raw, ret, err, repeated, writes>>

(***************************************************************************)
(* Bounds of the model.                                                    *)
(***************************************************************************)
MaxJ == 2        \* observations of an enumerated input
MaxQ == 2        \* continuum nodes of an enumerated input
MaxWrites == 1   \* writes of the caller to a value it was handed
Scale == 1000    \* fixed-point unit of singular vectors, singular values, std
Prec == 200      \* fixed-point unit inside the square roots of the SVD

Vals == {-1, 0, 1}     \* entries of enumerated bivariate data
UVals == {0, 1}        \* entries of enumerated univariate data

(***************************************************************************)
(* Integer helpers.                                                        *)
(***************************************************************************)
Abs(x) == IF x < 0 THEN -x ELSE x

Sgn(x) == IF x < 0 THEN -1 ELSE IF x > 0 THEN 1 ELSE 0

RECURSIVE Gcd(_, _)
Gcd(a, b) == IF b = 0 THEN a ELSE Gcd(b, a % b)

RECURSIVE SqrtBetween(_, _, _)
SqrtBetween(n, lo, hi) ==
    IF lo >= hi THEN lo
    ELSE LET mid == (lo + hi + 1) \div 2
         IN  IF mid * mid <= n THEN SqrtBetween(n, mid, hi)
                               ELSE SqrtBetween(n, lo, mid - 1)

\* floor of the square root of n >= 0
ISqrt(n) == SqrtBetween(n, 0, IF n < 46340 THEN n ELSE 46340)

\* x / d (d > 0) rounded to nearest, symmetric: RoundDiv(-x, d) = -RoundDiv(x, d)
RoundDiv(x, d) == Sgn(x) * ((2 * Abs(x) + d) \div (2 * d))

\* F(e), with e evaluated once
Bind(e, F(_)) == CHOOSE r \in {F(x) : x \in {e}} : TRUE

RECURSIVE SumTo(_, _)
SumTo(f, n) == IF n = 0 THEN 0 ELSE f[n] + SumTo(f, n - 1)

RECURSIVE Prod(_)
Prod(s) == IF s = <<>> THEN 1 ELSE Head(s) * Prod(Tail(s))

(***************************************************************************)
(* numpy arrays: [shape |-> <<d0, d1, ...>>, v |-> entries, row-major].    *)
(***************************************************************************)
Arr(shape, v) == [shape |-> shape, v |-> v]

Zeros(shape) == Arr(shape, [k \in 1..Prod(shape) |-> 0])

Rank(y) == Len(y.shape)

\* entries of one position along axis 0: the number of entries of y[j]
Stride(y) == Prod(Tail(y.shape))

\* y[j, k] with the trailing axes flattened into k (both 1-based)
At(y, j, k) == y.v[(j - 1) * Stride(y) + k]

(***************************************************************************)
(* _Dataset: the queries every class inherits (lines 37-51).  All reduce   *)
(* along axis 0, the observations.                                         *)
(***************************************************************************)
\* sum over the observations of entry k
ColSum(y, k) == SumTo([j \in 1..Head(y.shape) |-> At(y, j, k)], Head(y.shape))

\* sum over the observations of the products of the deviations of entries
\* a and b from their means, times J*J (the deviation of y is (J*y - sum)/J)
DevProd(y, a, b) ==
    LET J  == Head(y.shape)
        Sa == ColSum(y, a)
        Sb == ColSum(y, b)
    IN  SumTo([j \in 1..J |-> (J * At(y, j, a) - Sa) * (J * At(y, j, b) - Sb)], J)

\* y.mean(axis=0): the rational num[k] / den per entry; den = 0 is numpy's nan
mean(y) ==
    [shape |-> Tail(y.shape),
     num   |-> [k \in 1..Stride(y) |-> ColSum(y, k)],
     den   |-> Head(y.shape)]

\* the variance under y.std(axis=0, ddof=1), as a rational per entry
variance(y, ddof) ==
    LET J == Head(y.shape)
    IN  [shape |-> Tail(y.shape),
         num   |-> [k \in 1..Stride(y) |-> DevProd(y, k, k)],
         den   |-> J * J * (IF J > ddof THEN J - ddof ELSE 0)]

\* y.std(axis=0, ddof=1): sqrt of the variance, in units of 1/Scale; nan when
\* fewer than two observations leave the denominator J - 1 at zero
std(y) ==
    LET w == variance(y, 1)
    IN  [shape |-> w.shape,
         nan   |-> w.den = 0,
         v     |-> [k \in 1..Stride(y) |->
                      IF w.den = 0 THEN 0
                      ELSE ISqrt((w.num[k] * Scale * Scale) \div w.den)]]

RECURSIVE MinTo(_, _)
MinTo(f, n) == IF n = 1 THEN f[1]
               ELSE LET m == MinTo(f, n - 1) IN IF f[n] < m THEN f[n] ELSE m

RECURSIVE MaxTo(_, _)
MaxTo(f, n) == IF n = 1 THEN f[1]
               ELSE LET m == MaxTo(f, n - 1) IN IF f[n] > m THEN f[n] ELSE m

\* (y.min(axis=0), y.max(axis=0)); numpy raises ValueError on zero observations
range(y) ==
    LET J == Head(y.shape)
    IN  IF J = 0 THEN [exc |-> "ValueError", val |-> <<>>]
        ELSE [exc |-> "none",
              val |-> << [k \in 1..Stride(y) |->
                            MinTo([j \in 1..J |-> At(y, j, k)], J)],
                         [k \in 1..Stride(y) |->
                            MaxTo([j \in 1..J |-> At(y, j, k)], J)] >>]

(***************************************************************************)
(* np.cov(y.T, bias=bias) of a 2-d y (observations x components): the      *)
(* C x C matrix of rationals num[a][b] / den.  numpy centres the data,     *)
(* multiplies it with its transpose and divides by J - ddof, where         *)
(* ddof = 0 when bias is set and 1 otherwise.                              *)
(***************************************************************************)
npcov(y, bias) ==
    LET J    == y.shape[1]
        C    == y.shape[2]
        ddof == IF bias = 1 THEN 0 ELSE 1
    IN  [num |-> [a \in 1..C |-> [b \in 1..C |-> DevProd(y, a, b)]],
         den |-> J * J * (IF J > ddof THEN J - ddof ELSE 0)]

\* index normalisation that takes no negative index
NormIndex_NoWrap(i, n) == IF 0 <= i /\ i < n THEN i ELSE -1

\* numpy index normalisation along an axis of length n: a negative index
\* counts from the end; -1 stands for "IndexError"
NormIndex(i, n) == IF 0 <= i /\ i < n THEN i
                   ELSE IF -n <= i /\ i < 0 THEN i + n
                   ELSE -1

\* y[:, q, :] for a 0-based, in-range q: the view of node q
SliceNode(y, q) ==
    LET J == y.shape[1]
        Q == y.shape[2]
        T == Prod(SubSeq(y.shape, 3, Len(y.shape)))
    IN  Arr(<<J>> \o SubSeq(y.shape, 3, Len(y.shape)),
            [k \in 1..(J * T) |->
               y.v[((k - 1) \div T) * Q * T + q * T + ((k - 1) % T) + 1]])

(***************************************************************************)
(* np.linalg.svd(w) of a 2 x 2 covariance matrix w = [[a, b], [b, c]].     *)
(* w is symmetric positive semi-definite, so the singular values are its   *)
(* eigenvalues ((a + c) +- D) / 2 with D = sqrt((a - c)^2 + 4 b^2), in     *)
(* descending order, and the singular vectors its unit eigenvectors: the   *)
(* major one is parallel to (2b, (c - a) + D).  The routine is free in the *)
(* sign of either column of U; which signs it returns is the oracle orc,   *)
(* a function of the matrix, so that the same matrix always decomposes the *)
(* same way: orc[k] is the sign of the major axis, k the sign of the       *)
(* off-diagonal entry.  The minor axis is the major one turned by a right  *)
(* angle.  R is the transpose of U (the right singular vectors of a        *)
(* symmetric positive semi-definite matrix are its left ones).  Matrices   *)
(* are tuples of rows.                                                     *)
(***************************************************************************)
Signs == {1, -1}

Oracles == [{"neg", "nonneg"} -> Signs]

Transpose(M) == << <<M[1][1], M[2][1]>>, <<M[1][2], M[2][2]>> >>

\* the unit inside the square roots: Prec, or 1 once the discriminant is
\* large enough for whole numbers to resolve the direction
Unit(disc) == IF disc <= 2500 THEN Prec ELSE 1

\* w's entries a, b, c over their greatest common divisor g, with the
\* discriminant (a - c)^2 + 4 b^2 and D = root / P
Reduced(w) ==
    Bind(Gcd(Gcd(Abs(w.num[1][1]), Abs(w.num[1][2])), Abs(w.num[2][2])),
         LAMBDA g :
           Bind(IF g = 0 THEN <<0, 0, 0>>
                ELSE <<w.num[1][1] \div g, w.num[1][2] \div g, w.num[2][2] \div g>>,
                LAMBDA t :
                  Bind((t[1] - t[3]) * (t[1] - t[3]) + 4 * t[2] * t[2],
                       LAMBDA disc :
                         [g |-> g, a |-> t[1], b |-> t[2], c |-> t[3],
                          P |-> Unit(disc),
                          root |-> ISqrt(disc * Unit(disc) * Unit(disc))])))

\* the major unit eigenvector with a non-negative second component, times
\* Scale.  (2b, (c - a) + D) and ((a - c) + D, 2b) are parallel: the one
\* without cancellation is taken
MajorDirection(a, b, c, P, root) ==
    IF b = 0 THEN (IF c > a THEN << 0, Scale >> ELSE << Scale, 0 >>)
    ELSE Bind(IF c >= a THEN << 2 * b * P, (c - a) * P + root >>
              ELSE << Sgn(b) * ((a - c) * P + root), 2 * Abs(b) * P >>,
              LAMBDA v :
                Bind(ISqrt(v[1] * v[1] + v[2] * v[2]),
                     LAMBDA len : << RoundDiv(v[1] * Scale, len),
                                     RoundDiv(v[2] * Scale, len) >>))

svd(w, orc) ==
    Bind(Reduced(w),
         LAMBDA t :
           Bind(MajorDirection(t.a, t.b, t.c, t.P, t.root),
                LAMBDA m :
                  LET s0    == orc[IF t.b < 0 THEN "neg" ELSE "nonneg"]
                      big   == (t.a + t.c) * t.P + t.root
                      small == IF (t.a + t.c) * t.P > t.root
                               THEN (t.a + t.c) * t.P - t.root ELSE 0
                  IN  [U |-> << << s0 * m[1], -m[2] >>,
                                << s0 * m[2], m[1] >> >>,
                       s |-> << (t.g * big * Scale) \div (2 * t.P * w.den),
                                (t.g * small * Scale) \div (2 * t.P * w.den) >>,
                       R |-> << << s0 * m[1], s0 * m[2] >>,
                                << -m[2], m[1] >> >>]))

\* np.dot(u, v) of two vectors of the same length
dot(u, v) == SumTo([k \in 1..Len(u) |-> u[k] * v[k]], Len(u))

\* A[:, k] of a nested tuple A (k 0-based): entry k of every A[i]
TakeAxis1(A, k) == [i \in 1..Len(A) |-> A[i][k + 1]]

\* M *= -1
Negate(M) == [i \in 1..Len(M) |-> [j \in 1..Len(M[i]) |-> -M[i][j]]]

(***************************************************************************)
(* The sample objects.  NoObj stands for "no object": before construction  *)
(* and after a constructor that raised.                                    *)
(***************************************************************************)
NoObj == [cls |-> "none"]

Classes == {"UnivariateDataset0D", "UnivariateDataset1D",
            "BivariateDataset0D", "BivariateDataset1D"}

Bivariate == {"BivariateDataset0D", "BivariateDataset1D"}

Functional == {"UnivariateDataset1D", "BivariateDataset1D"}

\* what a constructor yields: the exception it raised or the object it built,
\* and the decompositions as np.linalg.svd returned them (for the record)
Raised(e) == [exc |-> e, obj |-> NoObj, raw |-> <<>>]

Built(o, r) == [exc |-> "none", obj |-> o, raw |-> r]

\* _Dataset.__init__, inherited by UnivariateDataset0D
Dataset(y) ==
    IF Rank(y) < 1 THEN Raised("IndexError")
    ELSE Built([cls |-> "UnivariateDataset0D", y |-> y, J |-> y.shape[1]], <<>>)

UnivariateDataset1D(y) ==
    IF Rank(y) < 2 THEN Raised("IndexError")
    ELSE Built([cls |-> "UnivariateDataset1D", y |-> y,
                J |-> y.shape[1], Q |-> y.shape[2]], <<>>)

\* get_cov with the unbiased estimator (numpy's own default) wherever its
\* denominator J - 1 is not zero
get_cov_Unbiased(y, bias) == npcov(y, IF Head(y.shape) > 1 THEN 0 ELSE 1)

\* _BivariateDataset.get_cov: np.cov(self.y.T, bias=bias)
get_cov(y, bias) == npcov(y, bias)

\* BivariateDataset1D.get_cov: one covariance matrix per node
get_cov1D(y, bias) == [q \in 1..y.shape[2] |-> npcov(SliceNode(y, q - 1), bias)]

\* SignCorrect testing the first component of the major axis instead of the second
SignCorrect_FirstComponent(d) ==
    IF dot(TakeAxis1(d.U, 0), <<1, 0>>) < 0
    THEN [U |-> Negate(d.U), s |-> d.s, R |-> Negate(d.R)]
    ELSE d

\* SignCorrect negating U and leaving R as the routine returned it
SignCorrect_OnlyU(d) ==
    IF dot(TakeAxis1(d.U, 0), <<0, 1>>) < 0
    THEN [U |-> Negate(d.U), s |-> d.s, R |-> d.R]
    ELSE d

\* the sign correction of _init_svd: U and R negated in full when the major
\* axis U[:,0] has a negative second component
SignCorrect(d) ==
    IF dot(TakeAxis1(d.U, 0), <<0, 1>>) < 0
    THEN [U |-> Negate(d.U), s |-> d.s, R |-> Negate(d.R)]
    ELSE d

\* the exception np.cov, np.linalg.svd or np.dot raises in _init_svd on data
\* of C components per observation whose transpose has the given rank
SvdError(rank, C) ==
    IF rank > 2 THEN "ValueError"       \* np.cov: m has more than 2 dimensions
    ELSE IF C = 1 THEN "LinAlgError"    \* np.cov is 0-d: svd needs 2-d
    ELSE IF C # 2 THEN "ValueError"     \* np.dot: shapes (C,) and (2,)
    ELSE "none"

\* _BivariateDataset.__init__ and _init_svd
BivariateDataset0D(y, orc) ==
    IF Rank(y) < 2 THEN Raised("IndexError")
    ELSE IF SvdError(Rank(y), y.shape[2]) # "none"
    THEN Raised(SvdError(Rank(y), y.shape[2]))
    ELSE LET r == svd(get_cov(y, 1), orc)
             d == SignCorrect(r)
         IN  Built([cls |-> "BivariateDataset0D", y |-> y,
                    J |-> y.shape[1], I |-> y.shape[2],
                    U |-> d.U, s |-> d.s, R |-> d.R], <<r>>)

\* BivariateDataset1D.__init__ and _init_svd
BivariateDataset1D(y, orc) ==
    IF Rank(y) < 3 THEN Raised("IndexError")
    ELSE IF SvdError(Rank(y) - 1, y.shape[3]) # "none"
    THEN Raised(SvdError(Rank(y) - 1, y.shape[3]))
    ELSE LET W == get_cov1D(y, 1)
             r == [q \in 1..Len(W) |-> svd(W[q], orc)]
             d == [q \in 1..Len(W) |-> SignCorrect(r[q])]
         IN  Built([cls |-> "BivariateDataset1D", y |-> y,
                    J |-> y.shape[1], Q |-> y.shape[2], I |-> y.shape[3],
                    U |-> [q \in 1..Len(W) |-> d[q].U],
                    s |-> [q \in 1..Len(W) |-> d[q].s],
                    R |-> [q \in 1..Len(W) |-> d[q].R]], r)

New(c, y, orc) ==
    CASE c = "UnivariateDataset0D" -> Dataset(y)
      [] c = "UnivariateDataset1D" -> UnivariateDataset1D(y)
      [] c = "BivariateDataset0D"  -> BivariateDataset0D(y, orc)
      [] c = "BivariateDataset1D"  -> BivariateDataset1D(y, orc)

(***************************************************************************)
(* The remaining queries, as functions of the object.                      *)
(***************************************************************************)
\* _Dataset1D._getx; the argument is [none |-> TRUE] for Python's None and
\* [none |-> FALSE, v |-> the coordinates] otherwise
None == [none |-> TRUE, v |-> <<>>]

Coords(v) == [none |-> FALSE, v |-> v]

getx(o, x) == IF x.none THEN [k \in 1..o.Q |-> k - 1] ELSE x.v

Maxis(o) == TakeAxis1(o.U, 0)

maxis(o) == TakeAxis1(o.U, 1)

ncomponents(o) == o.J

nnodes(o) == o.Q

samplesize(o) == o.J

cov(o) == IF o.cls = "BivariateDataset1D" THEN get_cov1D(o.y, 1)
          ELSE get_cov(o.y, 1)

toarray(o) == Arr(o.y.shape, o.y.v)

\* get_frame slicing one node too early: self.y[:,frame-1,:]
get_frame_Shifted(o, frame, orc) ==
    IF NormIndex(frame - 1, o.Q) < 0 THEN Raised("IndexError")
    ELSE BivariateDataset0D(SliceNode(o.y, NormIndex(frame - 1, o.Q)), orc)

\* BivariateDataset1D.get_frame: BivariateDataset0D(self.y[:,frame,:])
get_frame(o, frame, orc) ==
    IF NormIndex(frame, o.Q) < 0 THEN Raised("IndexError")
    ELSE BivariateDataset0D(SliceNode(o.y, NormIndex(frame, o.Q)), orc)

(***************************************************************************)
(* Inputs.  The enumerated data of each class, the concrete scenarios of   *)
(* the documentation, and arrays of other shapes (all zeros: only their    *)
(* shape decides what the constructor does with them).                     *)
(***************************************************************************)
AllArr(shape, vals) == {Arr(shape, v) : v \in [1..Prod(shape) -> vals]}

\* the covariance is invariant under translation: the enumerated bivariate
\* data put the first observation at the origin and draw the others, pair by
\* pair, from a set of points
FromOrigin(shape, points) ==
    LET pairs == Prod(shape) \div 2
        first == Prod(Tail(shape)) \div 2
    IN  {Arr(shape, [k \in 1..(2 * pairs) |->
                       IF k <= 2 * first THEN 0
                       ELSE t[(k + 1) \div 2][2 - (k % 2)]])
           : t \in [(first + 1)..pairs -> points]}

\* the points of the 0-D data
Points == Vals \X Vals

\* the points of the functional data, one per kind of covariance of a node:
\* none, along the first axis, along the second, positive, negative
Steps == {<<0, 0>>, <<1, 0>>, <<0, 1>>, <<1, 1>>, <<-1, 1>>}

Scenarios0D == {Arr(<<3, 2>>, <<1, 2, 3, 4, 5, 6>>),
                Arr(<<2, 2>>, <<-1, 2, 1, -2>>),
                Arr(<<3, 2>>, <<0, 0, 2, 1, 1, -2>>)}

Scenarios1D == {Arr(<<3, 2, 2>>, <<1, 2, 0, 0, 3, 4, 2, 1, 5, 6, 1, -2>>)}

Inputs(c) ==
    CASE c = "UnivariateDataset0D" ->
           UNION {AllArr(<<J>>, UVals) : J \in 0..MaxJ}
           \cup {Zeros(<<>>), Zeros(<<2, 2>>)}
      [] c = "UnivariateDataset1D" ->
           UNION {AllArr(<<J, Q>>, UVals) : J \in 1..MaxJ, Q \in 1..MaxQ}
           \cup {Zeros(<<>>), Zeros(<<2>>), Zeros(<<1, 1, 2>>)}
      [] c = "BivariateDataset0D" ->
           UNION {FromOrigin(<<J, 2>>, Points) : J \in 1..MaxJ}
           \cup Scenarios0D
           \cup {Zeros(<<>>), Zeros(<<2>>), Zeros(<<2, 1>>), Zeros(<<2, 3>>),
                 Zeros(<<1, 1, 2>>)}
      [] c = "BivariateDataset1D" ->
           UNION {FromOrigin(<<J, Q, 2>>, Steps) : J \in 1..2, Q \in 1..MaxQ}
           \cup Scenarios1D
           \cup {Zeros(<<2>>), Zeros(<<2, 2>>), Zeros(<<1, 1, 1>>),
                 Zeros(<<1, 1, 3>>), Zeros(<<1, 1, 1, 2>>)}

\* the inputs of the runs in which the caller writes to what it was handed
FewInputs(c) ==
    CASE c = "UnivariateDataset0D" -> {Arr(<<2>>, <<0, 1>>)}
      [] c = "UnivariateDataset1D" -> {Arr(<<2, 2>>, <<0, 1, 1, 1>>)}
      [] c = "BivariateDataset0D"  -> Scenarios0D
      [] c = "BivariateDataset1D"  -> Scenarios1D

\* the shape each class is documented to take
ValidShape(c, shape) ==
    CASE c = "UnivariateDataset0D" -> Len(shape) = 1 /\ shape[1] >= 1
      [] c = "UnivariateDataset1D" -> Len(shape) = 2
      [] c = "BivariateDataset0D"  -> Len(shape) = 2 /\ shape[2] = 2
      [] c = "BivariateDataset1D"  -> Len(shape) = 3 /\ shape[3] = 2

PlainOracle == [k \in {"neg", "nonneg"} |-> 1]

(***************************************************************************)
(* The state machine.  A run picks a class, an input array and the SVD     *)
(* routine's sign behaviour, calls the constructor, and then issues        *)
(* queries.  ret is what the last call handed back: the operation, its     *)
(* argument, the exception it raised, the value, and the storage of the    *)
(* sample the value shares memory with (a numpy view), if any.  repeated   *)
(* records that the last call asked what the call before it asked.         *)
(***************************************************************************)
NoRet == [op |-> "none", arg |-> 0, exc |-> "none", val |-> <<>>, alias |-> "none"]

InitWith(inputs(_)) ==
    /\ pc = "new"
    /\ cls \in Classes
    /\ inp \in inputs(cls)
    /\ lapack \in (IF cls \in Bivariate THEN Oracles ELSE {PlainOracle})
    /\ obj = NoObj
    /\ raw = <<>>
    /\ ret = NoRet
    /\ err = "none"
    /\ repeated = FALSE
    /\ writes = 0

Init == InitWith(Inputs)

Construct ==
    /\ pc = "new"
    /\ LET r == New(cls, inp, lapack)
       IN  /\ obj' = r.obj
           /\ raw' = r.raw
           /\ err' = r.exc
           /\ pc' = IF r.exc = "none" THEN "ready" ELSE "failed"
    /\ UNCHANGED <<cls, inp, lapack, ret, repeated, writes>>

\* a query on the sample that hands back val (or raises exc)
Answer(op, arg, exc, val, alias) ==
    /\ pc = "ready"
    /\ repeated' = (ret.op = op /\ ret.arg = arg)
    /\ ret' = [op |-> op, arg |-> arg, exc |-> exc, val |-> val, alias |-> alias]
    /\ UNCHANGED <<pc, cls, inp, lapack, obj, raw, err, writes>>

Call_mean ==
    /\ obj.cls \in Classes
    /\ Answer("mean", 0, "none", mean(obj.y), "none")

Call_std ==
    /\ obj.cls \in Classes
    /\ Answer("std", 0, "none", std(obj.y), "none")

\* y sorted in place along axis 0 (self.y.sort(axis=0))
SortedAxis0(y) ==
    LET J   == Head(y.shape)
        T   == Stride(y)
        col == [c \in 1..T |-> [j \in 1..J |-> At(y, j, c)]]
    IN  Arr(y.shape,
            [k \in 1..(J * T) |->
               LET j == ((k - 1) \div T) + 1
                   c == ((k - 1) % T) + 1
               IN  CHOOSE v \in {col[c][i] : i \in 1..J} :
                      /\ Cardinality({i \in 1..J : col[c][i] < v}) < j
                      /\ j <= Cardinality({i \in 1..J : col[c][i] <= v})])

\* range taking the ends of the data after sorting them in place
Call_range_Sorting ==
    /\ pc = "ready"
    /\ repeated' = (ret.op = "range")
    /\ obj' = [obj EXCEPT !.y = SortedAxis0(obj.y)]
    /\ ret' = [op |-> "range", arg |-> 0, exc |-> range(obj.y).exc,
               val |-> range(obj.y).val, alias |-> "none"]
    /\ UNCHANGED <<pc, cls, inp, lapack, raw, err, writes>>

Call_range ==
    /\ obj.cls \in Classes
    /\ Answer("range", 0, range(obj.y).exc, range(obj.y).val, "none")

Call_samplesize ==
    /\ obj.cls \in Classes
    /\ Answer("samplesize", 0, "none", samplesize(obj), "none")

Call_nnodes ==
    /\ obj.cls \in Functional
    /\ Answer("nnodes", 0, "none", nnodes(obj), "none")

Call_getx ==
    /\ obj.cls \in Functional
    /\ \E x \in {None} \cup {Coords([k \in 1..n |-> 10 * k]) : n \in {obj.Q, obj.Q + 1}} :
          Answer("getx", x, "none", getx(obj, x), "none")

Call_cov ==
    /\ obj.cls \in Bivariate
    /\ Answer("cov", 0, "none", cov(obj), "none")

Call_Maxis ==
    /\ obj.cls \in Bivariate
    /\ Answer("Maxis", 0, "none", Maxis(obj), "U")

Call_maxis ==
    /\ obj.cls \in Bivariate
    /\ Answer("maxis", 0, "none", maxis(obj), "U")

Call_ncomponents ==
    /\ obj.cls \in Bivariate
    /\ Answer("ncomponents", 0, "none", ncomponents(obj), "none")

Call_toarray ==
    /\ obj.cls \in Bivariate
    /\ Answer("toarray", 0, "none", toarray(obj), "none")

Call_get_frame ==
    /\ obj.cls = "BivariateDataset1D"
    /\ \E frame \in {-(obj.Q + 1), -obj.Q, -1, 0, obj.Q - 1, obj.Q} :
          LET r == get_frame(obj, frame, lapack)
          IN  Answer("get_frame", frame, r.exc, r.obj, "y")

\* the region estimator factories (get_confidence_region, get_ci2, ...): each
\* hands the sample and alpha to an estimator class defined outside this file
Factories(c) ==
    IF c \in Bivariate
    THEN {"get_ci2", "get_confidence_ellipse", "get_prediction_ellipse"}
    ELSE {"get_confidence_region", "get_prediction_region"}

Call_get_region ==
    \E f \in Factories(obj.cls) :
       Answer("get_region", f, "none", [estimator |-> f, dataset |-> "self"], "self")

(***************************************************************************)
(* The caller writes v into the value the last call handed it.  A fresh    *)
(* array (toarray's copy) takes the write alone.  Maxis and maxis hand out *)
(* self._U[:,k], get_frame a sample whose y is self.y[:,frame,:]: numpy    *)
(* basic slices, which share memory with the sample's own arrays, so the   *)
(* write lands in the sample too.                                          *)
(***************************************************************************)
WriteVals == {2}

Write_copy ==
    /\ pc = "ready" /\ writes < MaxWrites
    /\ ret.op = "toarray" /\ ret.alias = "none"
    /\ \E k \in 1..Len(ret.val.v), v \in WriteVals :
          ret' = [ret EXCEPT !.val.v[k] = v]
    /\ writes' = writes + 1
    /\ UNCHANGED <<pc, cls, inp, lapack, obj, raw, err, repeated>>

\* ret.val[i][...] is self._U[i][k][...], k = 0 for Maxis and 1 for maxis
Write_axis ==
    /\ pc = "ready" /\ writes < MaxWrites
    /\ ret.op \in {"Maxis", "maxis"} /\ ret.alias = "U"
    /\ LET k == IF ret.op = "Maxis" THEN 1 ELSE 2
       IN  \E i \in 1..Len(ret.val), v \in WriteVals :
              IF obj.cls = "BivariateDataset0D"
              THEN /\ ret' = [ret EXCEPT !.val[i] = v]
                   /\ obj' = [obj EXCEPT !.U[i][k] = v]
              ELSE \E c \in 1..2 :
                      /\ ret' = [ret EXCEPT !.val[i][c] = v]
                      /\ obj' = [obj EXCEPT !.U[i][k][c] = v]
    /\ writes' = writes + 1
    /\ UNCHANGED <<pc, cls, inp, lapack, raw, err, repeated>>

\* ret.val.y[j, i] is self.y[j, frame, i]
Write_frame ==
    /\ pc = "ready" /\ writes < MaxWrites
    /\ ret.op = "get_frame" /\ ret.exc = "none" /\ ret.alias = "y"
    /\ LET q == NormIndex(ret.arg, obj.Q)
       IN  \E j \in 1..obj.J, i \in 1..2, v \in WriteVals :
              /\ ret' = [ret EXCEPT !.val.y.v[(j - 1) * 2 + i] = v]
              /\ obj' = [obj EXCEPT !.y.v[(j - 1) * obj.Q * 2 + q * 2 + i] = v]
    /\ writes' = writes + 1
    /\ UNCHANGED <<pc, cls, inp, lapack, raw, err, repeated>>

Next ==
    \/ Construct
    \/ Call_mean
    \/ Call_std
    \/ Call_range
    \/ Call_samplesize
    \/ Call_nnodes
    \/ Call_getx
    \/ Call_cov
    \/ Call_Maxis
    \/ Call_maxis
    \/ Call_ncomponents
    \/ Call_toarray
    \/ Call_get_frame

Spec == Init /\ [][Next]_vars

\* the runs in which the caller also asks for region estimators and writes to
\* what it was handed
InitW == InitWith(FewInputs)

NextW ==
    \/ Next
    \/ Call_get_region
    \/ Write_copy
    \/ Write_axis
    \/ Write_frame

SpecW == InitW /\ [][NextW]_vars

(***************************************************************************)
(* Properties.  Nodes, Obs and Scatter read the raw data of a bivariate    *)
(* sample directly: Scatter(o, q, a, b) is J times the sum over the        *)
(* observations of node q of the products of the deviations of components  *)
(* a and b from their means, J * sum(y_a y_b) - sum(y_a) sum(y_b).         *)
(***************************************************************************)
Nodes(o) == IF o.cls = "BivariateDataset1D" THEN o.Q ELSE 1

Obs(o, q, j, a) ==
    IF o.cls = "BivariateDataset1D"
    THEN o.y.v[(j - 1) * o.Q * 2 + (q - 1) * 2 + a]
    ELSE o.y.v[(j - 1) * 2 + a]

Scatter(o, q, a, b) ==
    o.J * SumTo([j \in 1..o.J |-> Obs(o, q, j, a) * Obs(o, q, j, b)], o.J)
    - SumTo([j \in 1..o.J |-> Obs(o, q, j, a)], o.J)
      * SumTo([j \in 1..o.J |-> Obs(o, q, j, b)], o.J)

\* the decomposition the sample stores for node q (its only one when 0-D)
Stored(o, q) ==
    IF o.cls = "BivariateDataset1D"
    THEN [U |-> o.U[q], s |-> o.s[q], R |-> o.R[q]]
    ELSE [U |-> o.U, s |-> o.s, R |-> o.R]

\* the covariance of node q in a value of the cov property
CovAt(o, c, q) == IF o.cls = "BivariateDataset1D" THEN c[q] ELSE c

\* U * diag(s) * R, in units of 1/Scale
Product(d) ==
    [i \in 1..2 |-> [j \in 1..2 |->
       RoundDiv(d.U[i][1] * d.s[1], Scale) * d.R[1][j]
       + RoundDiv(d.U[i][2] * d.s[2], Scale) * d.R[2][j]]]

Ready == pc = "ready" /\ obj.cls \in Bivariate

ShapeRejection ==
    (pc # "new" /\ ~ValidShape(cls, inp.shape)) =>
        (err = "ShapeError" /\ obj = NoObj)

\* C3 (as claimed): get_frame fails with IndexError for every index outside
\* [0, Q), every negative index included, and returns a BivariateDataset0D
\* for the others.
FrameIndexError ==
    ret.op = "get_frame" =>
        IF 0 <= ret.arg /\ ret.arg < obj.Q
        THEN ret.exc = "none" /\ ret.val.cls = "BivariateDataset0D"
        ELSE ret.exc = "IndexError" /\ ret.val = NoObj

\* C3 (amended): get_frame fails with IndexError for every index outside
\* [-Q, Q); for an index in [-Q, 0) it returns the frame of node index + Q,
\* and for one in [0, Q) the frame of that node.
FrameIndexWraps ==
    ret.op = "get_frame" =>
        IF -obj.Q <= ret.arg /\ ret.arg < obj.Q
        THEN /\ ret.exc = "none"
             /\ ret.val.cls = "BivariateDataset0D"
             /\ ret.val.y.shape = <<obj.J, 2>>
             /\ \A j \in 1..obj.J, a \in 1..2 :
                   ret.val.y.v[(j - 1) * 2 + a]
                     = Obs(obj, ((ret.arg + obj.Q) % obj.Q) + 1, j, a)
        ELSE ret.exc = "IndexError" /\ ret.val = NoObj

\* C3 witness: get_frame(-1) on two nodes returned the frame of the last node
FrameIndexWitness ==
    /\ ret.op = "get_frame"
    /\ ret.arg = -1
    /\ obj.Q = 2
    /\ ret.exc = "none"
    /\ ret.val.y = SliceNode(obj.y, 1)
    /\ SliceNode(obj.y, 1) # SliceNode(obj.y, 0)

\* C4 (as claimed): _getx returns 0..Q-1 when given None, the coordinates
\* when given Q of them, and fails with DimensionMismatchError when given
\* another number of them.
GetxChecked ==
    ret.op = "getx" =>
        IF ret.arg.none
        THEN ret.exc = "none" /\ ret.val = [k \in 1..obj.Q |-> k - 1]
        ELSE IF Len(ret.arg.v) = obj.Q
        THEN ret.exc = "none" /\ ret.val = ret.arg.v
        ELSE ret.exc = "DimensionMismatchError"

\* C5: for every valid node index q, the sample get_frame(q) returns has the
\* covariance cov[q] and the sign-corrected decomposition (U, s, R), hence the
\* major and minor axes, that the functional sample stores for node q.
FrameConsistency ==
    (ret.op = "get_frame" /\ 0 <= ret.arg /\ ret.arg < obj.Q) =>
        /\ ret.exc = "none"
        /\ cov(ret.val) = cov(obj)[ret.arg + 1]
        /\ Stored(ret.val, 1) = Stored(obj, ret.arg + 1)
        /\ Maxis(ret.val) = TakeAxis1(obj.U[ret.arg + 1], 0)
        /\ maxis(ret.val) = TakeAxis1(obj.U[ret.arg + 1], 1)

\* C5 witness: the frame of the second of two nodes whose decompositions differ
FrameConsistencyWitness ==
    /\ ret.op = "get_frame"
    /\ ret.arg = 1
    /\ ret.exc = "none"
    /\ obj.Q = 2
    /\ obj.U[1] # obj.U[2]
    /\ ret.val.U = obj.U[2]

\* C6: the covariance the cov property returns, and the one that was
\* decomposed, is the biased estimator: J * cov[a][b] is the sum of the
\* products of the deviations (denominator J), per node; std divides by
\* J - 1; and y = [[1,2],[3,4],[5,6]] gives 8/3 in every entry.
BiasedCovariance ==
    /\ Ready =>
         \A q \in 1..Nodes(obj) :
            /\ \A a \in 1..2, b \in 1..2 :
                  LET c == CovAt(obj, cov(obj), q)
                  IN  /\ c.den > 0
                      /\ obj.J * obj.J * c.num[a][b] = c.den * Scatter(obj, q, a, b)
            /\ raw[q] = svd([num |-> [a \in 1..2 |-> [b \in 1..2 |->
                                        Scatter(obj, q, a, b)]],
                             den |-> obj.J * obj.J], lapack)
    /\ (Ready /\ ret.op = "cov") =>
         /\ ret.val = cov(obj)
         /\ inp = Arr(<<3, 2>>, <<1, 2, 3, 4, 5, 6>>) =>
               \A a \in 1..2, b \in 1..2 : 3 * ret.val.num[a][b] = 8 * ret.val.den
    /\ (Ready /\ ret.op = "std" /\ obj.cls = "BivariateDataset0D" /\ obj.J >= 2) =>
         \A a \in 1..2 :
            /\ ~ret.val.nan
            /\ ret.val.v[a] * ret.val.v[a] * (obj.J - 1) * obj.J
                 <= Scale * Scale * Scatter(obj, 1, a, a)
            /\ (ret.val.v[a] + 1) * (ret.val.v[a] + 1) * (obj.J - 1) * obj.J
                 > Scale * Scale * Scatter(obj, 1, a, a)

\* C6 witness: cov on y = [[1,2],[3,4],[5,6]] returned 8/3
BiasedCovarianceWitness ==
    /\ ret.op = "cov"
    /\ inp = Arr(<<3, 2>>, <<1, 2, 3, 4, 5, 6>>)
    /\ 3 * ret.val.num[1][2] = 8 * ret.val.den
    /\ ret.val.den > 0

\* what every query would return in the current state
Answers ==
    [mean       |-> mean(obj.y),
     std        |-> std(obj.y),
     range      |-> range(obj.y),
     samplesize |-> samplesize(obj),
     functional |-> IF obj.cls \in Functional
                    THEN <<nnodes(obj), getx(obj, None)>> ELSE <<>>,
     bivariate  |-> IF obj.cls \in Bivariate
                    THEN <<cov(obj), Maxis(obj), maxis(obj), toarray(obj)>>
                    ELSE <<>>,
     frames     |-> IF obj.cls = "BivariateDataset1D"
                    THEN [f \in (-obj.Q)..(obj.Q - 1) |-> get_frame(obj, f, lapack)]
                    ELSE <<>>]

\* C7: a call that repeats the call before it returns the same result; no
\* step leaves the sample in a state where some query answers differently;
\* and a sample constructed from the array toarray returned (an array equal
\* to the sample's data) is equal to the sample, signed axes included.
Determinism ==
    [][pc = "ready" =>
         /\ (ret'.op = ret.op /\ ret'.arg = ret.arg) => ret' = ret
         /\ (obj' = obj /\ lapack' = lapack) \/ Answers' = Answers
         /\ ret'.op = "toarray" =>
               New(cls, ret'.val, lapack').obj = obj']_vars

\* C7 witness: Maxis was called twice in a row
DeterminismWitness ==
    /\ repeated
    /\ ret.op = "Maxis"
    /\ ret.val = Maxis(obj)

\* C8 (as claimed): once the sample is constructed, no operation and no write
\* of the caller to a value it was handed changes J, y, U, s or R.
Immutability == [][pc = "ready" => obj' = obj]_vars

\* C9: for each decomposition the routine returned, if the second component
\* of U[:,0] is negative every entry of U and of R is stored negated,
\* otherwise U and R are stored as returned; s is stored as returned; and
\* U * diag(s) * R is the same before and after.
SignCorrectionAllOrNothing ==
    Ready =>
      /\ Len(raw) = Nodes(obj)
      /\ \A q \in 1..Nodes(obj) :
            LET r == raw[q]
                d == Stored(obj, q)
            IN  /\ r.U[2][1] < 0 =>
                     /\ \A i \in 1..2, j \in 1..2 :
                           d.U[i][j] = -r.U[i][j] /\ d.R[i][j] = -r.R[i][j]
                /\ r.U[2][1] >= 0 => (d.U = r.U /\ d.R = r.R)
                /\ d.s = r.s
                /\ Product(d) = Product(r)

\* C9 witness: two nodes of one sample, one stored negated, one as returned
SignCorrectionWitness ==
    /\ Ready
    /\ obj.cls = "BivariateDataset1D"
    /\ \E p \in 1..obj.Q, q \in 1..obj.Q :
          /\ raw[p].U[2][1] < 0
          /\ obj.U[p] = Negate(raw[p].U)
          /\ obj.R[p] = Negate(raw[p].R)
          /\ raw[q].U[2][1] > 0
          /\ obj.U[q] = raw[q].U

\* C10 (as claimed): ncomponents returns the number of components I.
NcomponentsIsI ==
    (Ready /\ ret.op = "ncomponents") => ret.val = obj.I

====
